---- MODULE Spec2Model ----
(***************************************************************************)
(* Model of the signing flows of the examples hub:                         *)
(*   - customSignMessage (server): the recovery-byte fix-up applied to the *)
(*     signature the wallet SDK returns;                                   *)
(*   - signWithAlchemy (server): the gate sequence in front of the signing *)
(*     and batch submission;                                               *)
(*   - SignMessageDemo.handleSubmit (client): the form's submit handler.   *)
(* Strings the code inspects character by character (signatures, the      *)
(* Authorization header, the message) are sequences of one-character       *)
(* strings.  The flows share no runtime state, so each has its own         *)
(* specification over the same variables.                                  *)
(***************************************************************************)
EXTENDS Integers, Sequences, FiniteSets, TLC

VARIABLES
    \* customSignMessage
    npc,            \* position in customSignMessage: "idle" | "awaitSign" | "returned"
    res,            \* res.signature, as returned by para.signMessage
    hash,           \* the value customSignMessage returned
    \* signWithAlchemy
    spc,            \* position in signWithAlchemy
    authHeader,     \* req.headers.get("Authorization")
    reqBody,        \* what req.json() yields
    env,            \* Bun.env: which deployment secrets are set
    pregenWallets,  \* emails the wallet service has a pregenerated wallet for
    keySharesDB,    \* emails the key-share store holds a share for
    decryptFails,   \* whether decrypt throws on the stored share
    sendFails,      \* whether sendUserOperation rejects
    user,           \* result of simulateVerifyToken
    email,          \* the email destructured from the body
    keyShare,       \* result of getKeyShareInDB
    userShare,      \* what para.setUserShare installed
    calls,          \* collaborators called so far in this request, in order
    response,       \* the Response returned (or the exception thrown)
    requests,       \* number of requests received so far
    prev,           \* the previous request: the first gate it violated and its answer
    \* SignMessageDemo
    inFlight,       \* handleSubmit invocations suspended at await capsule.signMessage
    message,        \* useState message
    signature,      \* useState signature
    isLoading,      \* useState isLoading
    status,         \* useState status
    isConnected,    \* useCapsule().isConnected
    walletId,       \* useCapsule().walletId
    signerCalls,    \* arguments of the capsule.signMessage calls of the last submit
    signerResult,   \* what the last settled capsule.signMessage call produced
    outcome,        \* which branch the last submit took
    submits         \* number of submits so far

nvars == <<npc, res, hash>>
svars == <<spc, authHeader, reqBody, env, pregenWallets, keySharesDB, decryptFails,
           sendFails, user, email, keyShare, userShare, calls, response>>
cvars == <<inFlight, message, signature, isLoading, status, isConnected, walletId,
           signerCalls, signerResult, outcome, submits>>
hvars == <<requests, prev>>
vars == <<nvars, svars, cvars, hvars>>

\* A string as the sequence of its characters.
Prefix0x == <<"0", "x">>

(***************************************************************************)
(* customSignMessage: string helpers, computed as JavaScript computes them *)
(***************************************************************************)
LowerHex == <<"0", "1", "2", "3", "4", "5", "6", "7", "8", "9", "a", "b", "c", "d", "e", "f">>
UpperHex == <<"0", "1", "2", "3", "4", "5", "6", "7", "8", "9", "A", "B", "C", "D", "E", "F">>

IsHexDigit(c) == \E i \in 1..16 : LowerHex[i] = c \/ UpperHex[i] = c

HexVal(c) == (CHOOSE i \in 1..16 : LowerHex[i] = c \/ UpperHex[i] = c) - 1

RECURSIVE ParseDigits(_, _)
ParseDigits(s, acc) ==
    IF s = <<>> \/ ~IsHexDigit(Head(s))
    THEN acc
    ELSE ParseDigits(Tail(s), acc * 16 + HexVal(Head(s)))

\* parseInt(s, 16): the value of the longest leading run of hex digits, NaN if none.
ParseInt16(s) ==
    IF s = <<>> \/ ~IsHexDigit(Head(s))
    THEN [nan |-> TRUE, val |-> 0]
    ELSE [nan |-> FALSE, val |-> ParseDigits(s, 0)]

\* s.slice(-n)
SliceLast(s, n) == IF Len(s) <= n THEN s ELSE SubSeq(s, Len(s) - n + 1, Len(s))

\* s.slice(0, -n)
SliceDropLast(s, n) == IF Len(s) <= n THEN <<>> ELSE SubSeq(s, 1, Len(s) - n)

\* n.toString(16), n >= 0
RECURSIVE ToString16(_)
ToString16(n) ==
    IF n < 16
    THEN <<LowerHex[n + 1]>>
    ELSE ToString16(n \div 16) \o <<LowerHex[(n % 16) + 1]>>

\* s.padStart(n, c)
RECURSIVE PadStart(_, _, _)
PadStart(s, n, c) == IF Len(s) >= n THEN s ELSE PadStart(<<c>> \o s, n, c)

\* n.toString(), n >= 0
RECURSIVE ToString10(_)
ToString10(n) ==
    IF n < 10
    THEN <<LowerHex[n + 1]>>
    ELSE ToString10(n \div 10) \o <<LowerHex[(n % 10) + 1]>>

\* The v fix-up with the radix of toString forgotten.
AdjustVDecimal(sig) ==
    LET lastByte == ParseInt16(SliceLast(sig, 2))
        adjustedV == PadStart(ToString10(lastByte.val + 27), 2, "0")
    IN  Prefix0x \o (IF ~lastByte.nan /\ lastByte.val < 27
                     THEN SliceDropLast(sig, 2) \o adjustedV
                     ELSE sig)

\* The v fix-up cutting one character instead of two: signature.slice(0, -1).
AdjustVSliceOne(sig) ==
    LET lastByte == ParseInt16(SliceLast(sig, 2))
        adjustedV == PadStart(ToString16(lastByte.val + 27), 2, "0")
    IN  Prefix0x \o (IF ~lastByte.nan /\ lastByte.val < 27
                     THEN SliceDropLast(sig, 1) \o adjustedV
                     ELSE sig)

\* The v fix-up left out: the signature is only prefixed.
AdjustVUnfixed(sig) == Prefix0x \o sig

\* The v fix-up with an off-by-one threshold (lastByte <= 27).
AdjustVOffByOne(sig) ==
    LET lastByte == ParseInt16(SliceLast(sig, 2))
        adjustedV == PadStart(ToString16(lastByte.val + 27), 2, "0")
    IN  Prefix0x \o (IF ~lastByte.nan /\ lastByte.val <= 27
                     THEN SliceDropLast(sig, 2) \o adjustedV
                     ELSE sig)

\* Lines 134-143 of customSignMessage: from res.signature to the returned Hash.
AdjustV(sig) ==
    LET lastByte == ParseInt16(SliceLast(sig, 2))
        adjustedV == PadStart(ToString16(lastByte.val + 27), 2, "0")
    IN  Prefix0x \o (IF ~lastByte.nan /\ lastByte.val < 27
                     THEN SliceDropLast(sig, 2) \o adjustedV
                     ELSE sig)

(***************************************************************************)
(* The signatures para.signMessage may return: 65 bytes (r, s, v) as 130   *)
(* hex characters.  The SDK types the field as a plain string; the bodies  *)
(* enumerated here alternate two fill characters, the trailing byte takes  *)
(* every value in either letter case, and the string comes with or         *)
(* without a 0x prefix.                                                    *)
(***************************************************************************)
SigHexLen == 2 * (32 + 32 + 1)

FillChars == {"0", "f", "E"}

HexChars == {LowerHex[i] : i \in 1..16} \cup {UpperHex[i] : i \in 1..16}

SigBody(c1, c2) == [i \in 1..(SigHexLen - 2) |-> IF i % 2 = 1 THEN c1 ELSE c2]

BareSignatures ==
    {SigBody(c1, c2) \o <<h, l>> : c1 \in FillChars, c2 \in FillChars,
                                   h \in HexChars, l \in HexChars}

WalletSignatures == BareSignatures \cup {Prefix0x \o s : s \in BareSignatures}

HasPrefix(s) == Len(s) >= 2 /\ SubSeq(s, 1, 2) = Prefix0x

\* The value of the trailing byte of a well-formed signature string.
TrailingByte(s) == 16 * HexVal(s[Len(s) - 1]) + HexVal(s[Len(s)])

NoSignature == <<>>

\* customSignMessage up to the await: hashMessage, then para.signMessage is called.
CustomSignMessageCall ==
    /\ npc \in {"idle", "returned"}
    /\ npc' = "awaitSign"
    /\ res' = NoSignature
    /\ hash' = NoSignature
    /\ UNCHANGED <<svars, cvars, hvars>>

\* para.signMessage resolves; the rest of customSignMessage runs to its return.
CustomSignMessageReturn ==
    /\ npc = "awaitSign"
    /\ \E sig \in WalletSignatures :
          /\ res' = sig
          /\ hash' = AdjustV(sig)
    /\ npc' = "returned"
    /\ UNCHANGED <<svars, cvars, hvars>>

(***************************************************************************)
(* signWithAlchemy                                                         *)
(***************************************************************************)
Undefined == "<undefined>"

\* JavaScript falsiness of an optional string: undefined or "".
Falsy(x) == x \in {Undefined, ""}

BearerSp == <<"B", "e", "a", "r", "e", "r", " ">>

\* s.startsWith(p)
StartsWith(s, p) == Len(s) >= Len(p) /\ SubSeq(s, 1, Len(p)) = p

RECURSIVE SplitAcc(_, _, _, _)
SplitAcc(s, c, cur, out) ==
    IF s = <<>>
    THEN Append(out, cur)
    ELSE IF Head(s) = c
         THEN SplitAcc(Tail(s), c, <<>>, Append(out, cur))
         ELSE SplitAcc(Tail(s), c, Append(cur, Head(s)), out)

\* s.split(c)
Split(s, c) == SplitAcc(s, c, <<>>, <<>>)

\* authHeader.split(" ")[1]: the second segment, undefined when there is none.
TokenOf(h) == IF Len(Split(h, " ")) >= 2 THEN Split(h, " ")[2] ELSE <<Undefined>>

Emails == {"alice@x", "bob@x"}

NoUser == [found |-> FALSE, email |-> Undefined]

\* The token-verification authority: a user identity or nothing.
SimulateVerifyToken(token) ==
    IF token = <<"A">> THEN [found |-> TRUE, email |-> "alice@x"]
    ELSE IF token = <<"B">> THEN [found |-> TRUE, email |-> "bob@x"]
    ELSE NoUser

NoKeyShare == [found |-> FALSE, owner |-> Undefined, encrypted |-> FALSE]

\* The key-share store, keyed by email: the encrypted share or nothing.
GetKeyShareInDB(e) ==
    IF e \in keySharesDB
    THEN [found |-> TRUE, owner |-> e, encrypted |-> TRUE]
    ELSE NoKeyShare

\* The decryption utility on a stored share, when it does not throw.
Decrypt(ks) == [ks EXCEPT !.encrypted = FALSE]

\* The Authorization headers a request may carry; absent is req.headers.get(...) = null.
AbsentHeader == [present |-> FALSE, value |-> <<>>]

Header(v) == [present |-> TRUE, value |-> v]

AuthHeaders ==
    { AbsentHeader,
      Header(<<>>),
      Header(<<"B", "a", "s", "i", "c", " ", "A">>),
      Header(<<"b", "e", "a", "r", "e", "r", " ", "A">>),
      Header(<<"B", "e", "a", "r", "e", "r", "A">>),
      Header(BearerSp),
      Header(BearerSp \o <<" ", "A">>),
      Header(BearerSp \o <<"A">>),
      Header(BearerSp \o <<"B">>),
      Header(BearerSp \o <<"X">>) }

\* What req.json() yields: a rejection, or a body whose email is undefined, "" or a string.
RequestBodies ==
    {[parses |-> FALSE, email |-> Undefined]}
    \cup {[parses |-> TRUE, email |-> e] : e \in {Undefined, "", "carol@x"} \cup Emails}

Envs == [PARA_API_KEY : BOOLEAN, ALCHEMY_API_KEY : BOOLEAN, ALCHEMY_GAS_POLICY_ID : BOOLEAN]

NoResponse == [kind |-> "none", status |-> 0, text |-> "", route |-> "", userOperationResult |-> ""]

TextResponse(code, text) ==
    [kind |-> "response", status |-> code, text |-> text, route |-> "", userOperationResult |-> ""]

JsonResponse(code, route, result) ==
    [kind |-> "response", status |-> code, text |-> "", route |-> route, userOperationResult |-> result]

\* The handler's promise rejects: an exception no line of signWithAlchemy catches.
Thrown(what) ==
    [kind |-> "thrown", status |-> 0, text |-> what, route |-> "", userOperationResult |-> ""]

Call(fn, arg) == [fn |-> fn, arg |-> arg]

CallNames == {calls[i].fn : i \in DOMAIN calls}

\* No request was answered before this one.
NoPrev == [gate |-> 0, response |-> NoResponse]

\* return new Response(...): the request is over.
Respond(r) ==
    /\ response' = r
    /\ spc' = "done"

\* Lines 24-27 without the startsWith("Bearer ") test.
CheckAuthorizationAnyScheme ==
    /\ spc = "start"
    /\ IF ~authHeader.present \/ authHeader.value = <<>>
       THEN Respond(TextResponse(401, "Unauthorized"))
       ELSE spc' = "verifyToken" /\ UNCHANGED response
    /\ UNCHANGED <<authHeader, reqBody, env, pregenWallets, keySharesDB, decryptFails,
                   sendFails, user, email, keyShare, userShare, calls>>
    /\ UNCHANGED <<nvars, cvars, hvars>>

\* Lines 24-27: the Authorization header is present and starts with "Bearer ".
CheckAuthorization ==
    /\ spc = "start"
    /\ IF ~authHeader.present \/ authHeader.value = <<>>
          \/ ~StartsWith(authHeader.value, BearerSp)
       THEN Respond(TextResponse(401, "Unauthorized"))
       ELSE spc' = "verifyToken" /\ UNCHANGED response
    /\ UNCHANGED <<authHeader, reqBody, env, pregenWallets, keySharesDB, decryptFails,
                   sendFails, user, email, keyShare, userShare, calls>>
    /\ UNCHANGED <<nvars, cvars, hvars>>

\* Lines 30-35: the token is verified and yields the user.
VerifyToken ==
    /\ spc = "verifyToken"
    /\ LET token == TokenOf(authHeader.value)
           u == SimulateVerifyToken(token)
       IN  /\ calls' = Append(calls, Call("simulateVerifyToken", token))
           /\ user' = u
           /\ IF ~u.found
              THEN Respond(TextResponse(401, "Unauthorized"))
              ELSE spc' = "parseBody" /\ UNCHANGED response
    /\ UNCHANGED <<authHeader, reqBody, env, pregenWallets, keySharesDB, decryptFails,
                   sendFails, email, keyShare, userShare>>
    /\ UNCHANGED <<nvars, cvars, hvars>>

\* Lines 38-46 with the two email tests in the other order.
ParseBodyMismatchFirst ==
    /\ spc = "parseBody"
    /\ calls' = Append(calls, Call("req.json", Undefined))
    /\ IF ~reqBody.parses
       THEN Respond(Thrown("req.json")) /\ UNCHANGED email
       ELSE /\ email' = reqBody.email
            /\ IF user.email # reqBody.email
               THEN Respond(TextResponse(403, "Forbidden"))
               ELSE IF Falsy(reqBody.email)
                    THEN Respond(TextResponse(400, "Email is required"))
                    ELSE spc' = "checkEnv" /\ UNCHANGED response
    /\ UNCHANGED <<authHeader, reqBody, env, pregenWallets, keySharesDB, decryptFails,
                   sendFails, user, keyShare, userShare>>
    /\ UNCHANGED <<nvars, cvars, hvars>>

\* Lines 38-46 without the user.email !== email test.
ParseBodyNoIdentityCheck ==
    /\ spc = "parseBody"
    /\ calls' = Append(calls, Call("req.json", Undefined))
    /\ IF ~reqBody.parses
       THEN Respond(Thrown("req.json")) /\ UNCHANGED email
       ELSE /\ email' = reqBody.email
            /\ IF Falsy(reqBody.email)
               THEN Respond(TextResponse(400, "Email is required"))
               ELSE spc' = "checkEnv" /\ UNCHANGED response
    /\ UNCHANGED <<authHeader, reqBody, env, pregenWallets, keySharesDB, decryptFails,
                   sendFails, user, keyShare, userShare>>
    /\ UNCHANGED <<nvars, cvars, hvars>>

\* Lines 38-46: the body is read; the email is required and must be the user's.
ParseBody ==
    /\ spc = "parseBody"
    /\ calls' = Append(calls, Call("req.json", Undefined))
    /\ IF ~reqBody.parses
       THEN Respond(Thrown("req.json")) /\ UNCHANGED email
       ELSE /\ email' = reqBody.email
            /\ IF Falsy(reqBody.email)
               THEN Respond(TextResponse(400, "Email is required"))
               ELSE IF user.email # reqBody.email
                    THEN Respond(TextResponse(403, "Forbidden"))
                    ELSE spc' = "checkEnv" /\ UNCHANGED response
    /\ UNCHANGED <<authHeader, reqBody, env, pregenWallets, keySharesDB, decryptFails,
                   sendFails, user, keyShare, userShare>>
    /\ UNCHANGED <<nvars, cvars, hvars>>

\* Lines 49-59: the deployment secrets are set.
CheckEnv ==
    /\ spc = "checkEnv"
    /\ IF ~env.PARA_API_KEY
       THEN Respond(TextResponse(500, "PARA_API_KEY not set"))
       ELSE IF ~env.ALCHEMY_API_KEY \/ ~env.ALCHEMY_GAS_POLICY_ID
            THEN Respond(TextResponse(500, "ALCHEMY_API_KEY or ALCHEMY_GAS_POLICY_ID not set"))
            ELSE spc' = "checkWallet" /\ UNCHANGED response
    /\ UNCHANGED <<authHeader, reqBody, env, pregenWallets, keySharesDB, decryptFails,
                   sendFails, user, email, keyShare, userShare, calls>>
    /\ UNCHANGED <<nvars, cvars, hvars>>

\* Lines 62-66 answering with the text of lines 70-72.
CheckWalletKeyShareText ==
    /\ spc = "checkWallet"
    /\ calls' = Append(calls, Call("hasPregenWallet", email))
    /\ IF email \notin pregenWallets
       THEN Respond(TextResponse(400, "Key share does not exist"))
       ELSE spc' = "loadKeyShare" /\ UNCHANGED response
    /\ UNCHANGED <<authHeader, reqBody, env, pregenWallets, keySharesDB, decryptFails,
                   sendFails, user, email, keyShare, userShare>>
    /\ UNCHANGED <<nvars, cvars, hvars>>

\* Lines 62-66: the wallet service has a pregenerated wallet for the email.
CheckWallet ==
    /\ spc = "checkWallet"
    /\ calls' = Append(calls, Call("hasPregenWallet", email))
    /\ IF email \notin pregenWallets
       THEN Respond(TextResponse(400, "Wallet does not exist"))
       ELSE spc' = "loadKeyShare" /\ UNCHANGED response
    /\ UNCHANGED <<authHeader, reqBody, env, pregenWallets, keySharesDB, decryptFails,
                   sendFails, user, email, keyShare, userShare>>
    /\ UNCHANGED <<nvars, cvars, hvars>>

\* Lines 69-72 without the !keyShare test.
LoadKeyShareUnchecked ==
    /\ spc = "loadKeyShare"
    /\ calls' = Append(calls, Call("getKeyShareInDB", email))
    /\ keyShare' = GetKeyShareInDB(email)
    /\ spc' = "decrypt"
    /\ UNCHANGED <<authHeader, reqBody, env, pregenWallets, keySharesDB, decryptFails,
                   sendFails, user, email, userShare, response>>
    /\ UNCHANGED <<nvars, cvars, hvars>>

\* Lines 69-72: the store holds a key share for the email.
LoadKeyShare ==
    /\ spc = "loadKeyShare"
    /\ calls' = Append(calls, Call("getKeyShareInDB", email))
    /\ keyShare' = GetKeyShareInDB(email)
    /\ IF ~keyShare'.found
       THEN Respond(TextResponse(400, "Key share does not exist"))
       ELSE spc' = "decrypt" /\ UNCHANGED response
    /\ UNCHANGED <<authHeader, reqBody, env, pregenWallets, keySharesDB, decryptFails,
                   sendFails, user, email, userShare>>
    /\ UNCHANGED <<nvars, cvars, hvars>>

\* Lines 74-75: the share is decrypted and installed; a failing decrypt throws.
DecryptAndSetUserShare ==
    /\ spc = "decrypt"
    /\ IF decryptFails
       THEN /\ calls' = Append(calls, Call("decrypt", keyShare.owner))
            /\ Respond(Thrown("decrypt"))
            /\ UNCHANGED userShare
       ELSE /\ calls' = calls \o <<Call("decrypt", keyShare.owner),
                                   Call("setUserShare", Decrypt(keyShare).owner)>>
            /\ userShare' = Decrypt(keyShare)
            /\ spc' = "buildSigner"
            /\ UNCHANGED response
    /\ UNCHANGED <<authHeader, reqBody, env, pregenWallets, keySharesDB, decryptFails,
                   sendFails, user, email, keyShare>>
    /\ UNCHANGED <<nvars, cvars, hvars>>

\* Lines 78-100: the signing account, its viem client and the Alchemy client are built.
BuildSigner ==
    /\ spc = "buildSigner"
    /\ calls' = calls \o <<Call("createParaAccount", userShare.owner),
                           Call("createParaViemClient", userShare.owner),
                           Call("createModularAccountAlchemyClient", userShare.owner)>>
    /\ spc' = "sendUserOperation"
    /\ UNCHANGED <<authHeader, reqBody, env, pregenWallets, keySharesDB, decryptFails,
                   sendFails, user, email, keyShare, userShare, response>>
    /\ UNCHANGED <<nvars, cvars, hvars>>

\* Lines 103-117: the batch of five calls is submitted and its result returned.
SendUserOperation ==
    /\ spc = "sendUserOperation"
    /\ calls' = Append(calls, Call("sendUserOperation", userShare.owner))
    /\ IF sendFails
       THEN Respond(Thrown("sendUserOperation"))
       ELSE Respond(JsonResponse(200, "signWithAlchemy", "userOperationResult"))
    /\ UNCHANGED <<authHeader, reqBody, env, pregenWallets, keySharesDB, decryptFails,
                   sendFails, user, email, keyShare, userShare>>
    /\ UNCHANGED <<nvars, cvars, hvars>>

(***************************************************************************)
(* SignMessageDemo                                                         *)
(***************************************************************************)
MaxSubmits == 3

\* s.trim(), for the one whitespace character the inputs use
RECURSIVE TrimStart(_)
TrimStart(s) == IF s # <<>> /\ Head(s) = " " THEN TrimStart(Tail(s)) ELSE s

RECURSIVE TrimEnd(_)
TrimEnd(s) == IF s # <<>> /\ s[Len(s)] = " " THEN TrimEnd(SubSeq(s, 1, Len(s) - 1)) ELSE s

Trim(s) == TrimEnd(TrimStart(s))

\* UTF-8 code of the characters the inputs use
CharCode(c) == IF c = "h" THEN 104 ELSE IF c = "i" THEN 105 ELSE 32

Base64Alphabet ==
    <<"A", "B", "C", "D", "E", "F", "G", "H", "I", "J", "K", "L", "M", "N", "O", "P",
      "Q", "R", "S", "T", "U", "V", "W", "X", "Y", "Z", "a", "b", "c", "d", "e", "f",
      "g", "h", "i", "j", "k", "l", "m", "n", "o", "p", "q", "r", "s", "t", "u", "v",
      "w", "x", "y", "z", "0", "1", "2", "3", "4", "5", "6", "7", "8", "9", "+", "/">>

B64(i) == Base64Alphabet[i + 1]

RECURSIVE Base64Bytes(_)
Base64Bytes(b) ==
    IF b = <<>> THEN <<>>
    ELSE IF Len(b) = 1
    THEN <<B64(b[1] \div 4), B64((b[1] % 4) * 16), "=", "=">>
    ELSE IF Len(b) = 2
    THEN <<B64(b[1] \div 4), B64((b[1] % 4) * 16 + b[2] \div 16), B64((b[2] % 16) * 4), "=">>
    ELSE <<B64(b[1] \div 4), B64((b[1] % 4) * 16 + b[2] \div 16),
           B64((b[2] % 16) * 4 + b[3] \div 64), B64(b[3] % 64)>>
         \o Base64Bytes(SubSeq(b, 4, Len(b)))

\* Buffer.from(s).toString("base64")
Base64(s) == Base64Bytes([i \in 1..Len(s) |-> CharCode(s[i])])

\* What the user can type into the input.
Messages == {<<>>, <<" ">>, <<"h", "i">>, <<" ", "h", "i", " ">>}

\* useCapsule().walletId
WalletIds == {Undefined, "", "w1"}

\* What capsule.signMessage resolves to: a completed signature, or a pending/review object.
SignerResults ==
    { [signature |-> <<"a", "1">>],
      [signature |-> <<"b", "2">>],
      [pendingTransactionId |-> "p1"],
      [transactionReviewUrl |-> "u1"],
      [pendingTransactionId |-> "p1", transactionReviewUrl |-> "u1"] }

\* No call has settled yet / the call rejected with an error.
NoResult == [none |-> TRUE]

Rejected == [rejected |-> TRUE]

\* The text `${r.signature}` interpolates: the signature, or "undefined" when r has none.
SignatureOf(r) ==
    IF "signature" \in DOMAIN r
    THEN r.signature
    ELSE <<"u", "n", "d", "e", "f", "i", "n", "e", "d">>

NoStatus == [show |-> FALSE, type |-> "success", message |-> ""]

ErrorStatus(m) == [show |-> TRUE, type |-> "error", message |-> m]

SuccessStatus(m) == [show |-> TRUE, type |-> "success", message |-> m]

NotConnectedMsg == "Please connect your wallet to sign a message."
NoWalletIdMsg == "No wallet ID found. Please reconnect your wallet."
DeniedMsg == "Message signing was denied."
FailedMsg == "Failed to sign message. Please try again."
SignedMsg == "Message signed successfully!"

\* onChange of the input (disabled while loading)
SetMessage(m) ==
    /\ ~isLoading
    /\ message' = m
    /\ UNCHANGED <<inFlight, signature, isLoading, status, isConnected, walletId,
                   signerCalls, signerResult, outcome, submits>>
    /\ UNCHANGED <<nvars, svars, hvars>>

\* The CapsuleProvider context changes: the wallet connects or disconnects.
ProviderUpdate(c, w) ==
    /\ isConnected' = c
    /\ walletId' = w
    /\ UNCHANGED <<inFlight, message, signature, isLoading, status, signerCalls,
                   signerResult, outcome, submits>>
    /\ UNCHANGED <<nvars, svars, hvars>>

\* The form with a button that is disabled only when the message is empty.
CanSubmitWhileLoading == message # <<>>

\* The form can be submitted: the input is required and the button is
\* disabled when the message is empty or a submit is loading.
CanSubmit == message # <<>> /\ ~isLoading

\* handleSubmit without the !walletId test of lines 33-40.
HandleSubmitNoWalletIdCheck ==
    /\ CanSubmit
    /\ submits < MaxSubmits
    /\ submits' = submits + 1
    /\ IF ~isConnected
       THEN /\ status' = ErrorStatus(NotConnectedMsg)
            /\ outcome' = "notConnected"
            /\ signerCalls' = <<>>
            /\ isLoading' = FALSE
            /\ UNCHANGED inFlight
       ELSE /\ signerCalls' = <<[walletId |-> walletId, base64Message |-> Base64(Trim(message))]>>
            /\ outcome' = "awaiting"
            /\ isLoading' = TRUE
            /\ inFlight' = inFlight + 1
            /\ UNCHANGED status
    /\ UNCHANGED <<message, signature, isConnected, walletId, signerResult>>
    /\ UNCHANGED <<nvars, svars, hvars>>

\* handleSubmit up to its first suspension: lines 19-45, and, when a
\* precondition fails, the finally block of line 70.
HandleSubmit ==
    /\ CanSubmit
    /\ submits < MaxSubmits
    /\ submits' = submits + 1
    /\ IF ~isConnected
       THEN /\ status' = ErrorStatus(NotConnectedMsg)
            /\ outcome' = "notConnected"
            /\ signerCalls' = <<>>
            /\ isLoading' = FALSE
            /\ UNCHANGED inFlight
       ELSE IF Falsy(walletId)
       THEN /\ status' = ErrorStatus(NoWalletIdMsg)
            /\ outcome' = "noWalletId"
            /\ signerCalls' = <<>>
            /\ isLoading' = FALSE
            /\ UNCHANGED inFlight
       ELSE /\ signerCalls' = <<[walletId |-> walletId, base64Message |-> Base64(Trim(message))]>>
            /\ outcome' = "awaiting"
            /\ isLoading' = TRUE
            /\ inFlight' = inFlight + 1
            /\ UNCHANGED status
    /\ UNCHANGED <<message, signature, isConnected, walletId, signerResult>>
    /\ UNCHANGED <<nvars, svars, hvars>>

\* Lines 45-61 testing only pendingTransactionId.
SignerResolvesOnlyPendingId(r) ==
    /\ inFlight > 0
    /\ inFlight' = inFlight - 1
    /\ signerResult' = r
    /\ IF "pendingTransactionId" \in DOMAIN r
       THEN /\ status' = ErrorStatus(DeniedMsg)
            /\ outcome' = "denied"
            /\ UNCHANGED signature
       ELSE /\ signature' = Prefix0x \o SignatureOf(r)
            /\ status' = SuccessStatus(SignedMsg)
            /\ outcome' = "success"
    /\ isLoading' = FALSE
    /\ UNCHANGED <<message, isConnected, walletId, signerCalls, submits>>
    /\ UNCHANGED <<nvars, svars, hvars>>

\* capsule.signMessage resolves with r: lines 45-61, then the finally block.
SignerResolves(r) ==
    /\ inFlight > 0
    /\ inFlight' = inFlight - 1
    /\ signerResult' = r
    /\ IF "pendingTransactionId" \in DOMAIN r \/ "transactionReviewUrl" \in DOMAIN r
       THEN /\ status' = ErrorStatus(DeniedMsg)
            /\ outcome' = "denied"
            /\ UNCHANGED signature
       ELSE /\ signature' = Prefix0x \o SignatureOf(r)
            /\ status' = SuccessStatus(SignedMsg)
            /\ outcome' = "success"
    /\ isLoading' = FALSE
    /\ UNCHANGED <<message, isConnected, walletId, signerCalls, submits>>
    /\ UNCHANGED <<nvars, svars, hvars>>

\* The catch block of lines 62-68 with no finally block after it.
SignerRejectsNoFinally ==
    /\ inFlight > 0
    /\ inFlight' = inFlight - 1
    /\ signerResult' = Rejected
    /\ status' = ErrorStatus(FailedMsg)
    /\ outcome' = "thrown"
    /\ UNCHANGED <<message, signature, isLoading, isConnected, walletId, signerCalls, submits>>
    /\ UNCHANGED <<nvars, svars, hvars>>

\* The catch block of lines 62-68 also resetting the signature state.
SignerRejectsClearsSignature ==
    /\ inFlight > 0
    /\ inFlight' = inFlight - 1
    /\ signerResult' = Rejected
    /\ signature' = <<>>
    /\ status' = ErrorStatus(FailedMsg)
    /\ outcome' = "thrown"
    /\ isLoading' = FALSE
    /\ UNCHANGED <<message, isConnected, walletId, signerCalls, submits>>
    /\ UNCHANGED <<nvars, svars, hvars>>

\* capsule.signMessage rejects: the catch block of lines 62-68, then the finally block.
SignerRejects ==
    /\ inFlight > 0
    /\ inFlight' = inFlight - 1
    /\ signerResult' = Rejected
    /\ status' = ErrorStatus(FailedMsg)
    /\ outcome' = "thrown"
    /\ isLoading' = FALSE
    /\ UNCHANGED <<message, signature, isConnected, walletId, signerCalls, submits>>
    /\ UNCHANGED <<nvars, svars, hvars>>

(***************************************************************************)
(* Specifications                                                          *)
(***************************************************************************)
NormalizerIdle ==
    /\ npc = "idle"
    /\ res = NoSignature
    /\ hash = NoSignature

ServerIdle ==
    /\ spc = "start"
    /\ authHeader = AbsentHeader
    /\ reqBody = [parses |-> FALSE, email |-> Undefined]
    /\ env = [PARA_API_KEY |-> FALSE, ALCHEMY_API_KEY |-> FALSE, ALCHEMY_GAS_POLICY_ID |-> FALSE]
    /\ pregenWallets = {}
    /\ keySharesDB = {}
    /\ decryptFails = FALSE
    /\ sendFails = FALSE
    /\ user = NoUser
    /\ email = Undefined
    /\ keyShare = NoKeyShare
    /\ userShare = NoKeyShare
    /\ calls = <<>>
    /\ response = NoResponse
    /\ requests = 1
    /\ prev = NoPrev

\* The component as first rendered: lines 8-17.
ClientMounted ==
    /\ inFlight = 0
    /\ message = <<>>
    /\ signature = <<>>
    /\ isLoading = FALSE
    /\ status = NoStatus
    /\ signerCalls = <<>>
    /\ signerResult = NoResult
    /\ outcome = "none"
    /\ submits = 0

ClientIdle ==
    /\ ClientMounted
    /\ isConnected = FALSE
    /\ walletId = Undefined

\* customSignMessage on every signature the wallet may return.
NormInit == NormalizerIdle /\ ServerIdle /\ ClientIdle

NormNext == CustomSignMessageCall \/ CustomSignMessageReturn

NormSpec == NormInit /\ [][NormNext]_vars

\* One request to signWithAlchemy, for every request and environment.
ServerInit ==
    /\ NormalizerIdle
    /\ ClientIdle
    /\ spc = "start"
    /\ authHeader \in AuthHeaders
    /\ reqBody \in RequestBodies
    /\ env \in Envs
    /\ pregenWallets \in SUBSET Emails
    /\ keySharesDB \in SUBSET Emails
    /\ decryptFails \in BOOLEAN
    /\ sendFails \in BOOLEAN
    /\ user = NoUser
    /\ email = Undefined
    /\ keyShare = NoKeyShare
    /\ userShare = NoKeyShare
    /\ calls = <<>>
    /\ response = NoResponse
    /\ requests = 1
    /\ prev = NoPrev

ServerNext ==
    \/ CheckAuthorization
    \/ VerifyToken
    \/ ParseBody
    \/ CheckEnv
    \/ CheckWallet
    \/ LoadKeyShare
    \/ DecryptAndSetUserShare
    \/ BuildSigner
    \/ SendUserOperation

ServerSpec == ServerInit /\ [][ServerNext]_vars

\* The mounted form, submitted up to MaxSubmits times.
ClientInit ==
    /\ NormalizerIdle
    /\ ServerIdle
    /\ ClientMounted
    /\ isConnected \in BOOLEAN
    /\ walletId \in WalletIds

SignerSettles == (\E r \in SignerResults : SignerResolves(r)) \/ SignerRejects

ClientNext ==
    \/ \E m \in Messages : SetMessage(m)
    \/ \E c \in BOOLEAN, w \in WalletIds : ProviderUpdate(c, w)
    \/ HandleSubmit
    \/ \E r \in SignerResults : SignerResolves(r)
    \/ SignerRejects

ClientSpec == ClientInit /\ [][ClientNext]_vars

\* The same, when every signer call that was made resolves or rejects.
ClientFairSpec == ClientSpec /\ WF_vars(SignerSettles)

(***************************************************************************)
(* Properties of customSignMessage (checked under NormSpec)                *)
(***************************************************************************)
Returned == npc = "returned"

\* The two lowercase hex characters of a byte value.
HexByte(v) == <<LowerHex[(v \div 16) + 1], LowerHex[(v % 16) + 1]>>

\* C1: for every unprefixed 130-character signature whose trailing byte is
\* below 27, customSignMessage returns 0x and 130 characters, the last two
\* being the lowercase hex of the original value + 27 and the 128 before
\* them being those of the input.
C1_LowRecoveryByteShifted ==
    (Returned /\ ~HasPrefix(res) /\ TrailingByte(res) < 27) =>
        /\ Len(hash) = SigHexLen + 2
        /\ SliceLast(hash, 2) = HexByte(TrailingByte(res) + 27)
        /\ SubSeq(hash, 3, Len(hash) - 2) = SliceDropLast(res, 2)

C1_Witness ==
    /\ Returned
    /\ ~HasPrefix(res)
    /\ SliceLast(res, 2) = <<"0", "A">>
    /\ SliceLast(hash, 2) = <<"2", "5">>

C3_RecoveryByteIs27Or28 ==
    Returned => TrailingByte(hash) \in {27, 28}

\* C3 as amended: every returned signature has its trailing byte at least
\* 27, and it is 27 or 28 exactly when the wallet's trailing byte is one of
\* 0, 1, 27, 28.
C3_RecoveryByteAtLeast27 ==
    Returned =>
        /\ TrailingByte(hash) >= 27
        /\ TrailingByte(hash) \in {27, 28} <=> TrailingByte(res) \in {0, 1, 27, 28}

C3_Witness ==
    /\ Returned
    /\ TrailingByte(res) = 1
    /\ TrailingByte(hash) = 28

C11_SameLengthAsInput ==
    Returned =>
        /\ HasPrefix(hash)
        /\ Len(hash) = Len(res)
        /\ SliceDropLast(hash, 2) = SliceDropLast(res, 2)

\* C11 as amended: the value returned is 0x followed by a string as long as
\* the one the wallet returned, which differs from it only in its last byte
\* (two characters), so it is two characters longer than the input; for an
\* unprefixed input every character after the 0x is a hex digit.
C11_PrefixPlusInputLength ==
    Returned =>
        /\ HasPrefix(hash)
        /\ Len(hash) = Len(res) + 2
        /\ SubSeq(hash, 3, Len(hash) - 2) = SliceDropLast(res, 2)
        /\ ~HasPrefix(res) => \A i \in 3..Len(hash) : IsHexDigit(hash[i])

C11_Witness ==
    /\ Returned
    /\ ~HasPrefix(res)
    /\ TrailingByte(res) = 0
    /\ Len(res) = SigHexLen
    /\ Len(hash) = SigHexLen + 2
    /\ SliceLast(hash, 2) = <<"1", "b">>

(***************************************************************************)
(* Properties of signWithAlchemy (checked under ServerSpec)                *)
(***************************************************************************)
Done == spc = "done"

\* The request has no Authorization header, or one that does not start with "Bearer ".
NoBearerHeader == ~authHeader.present \/ ~StartsWith(authHeader.value, BearerSp)

\* C5: a request with no Authorization header, or one not starting with
\* "Bearer ", ends with 401, and at no point of it has any collaborator been
\* called or any of its results been stored.
C5_NoBearerRejectedBeforeAnyCall ==
    NoBearerHeader =>
        /\ calls = <<>>
        /\ user = NoUser /\ email = Undefined
        /\ keyShare = NoKeyShare /\ userShare = NoKeyShare
        /\ spc \in {"start", "done"}
        /\ Done => response = TextResponse(401, "Unauthorized")

C5_Witness ==
    /\ Done
    /\ authHeader = Header(<<"B", "a", "s", "i", "c", " ", "A">>)
    /\ response.status = 401
    /\ calls = <<>>

\* The token verified to a user and the body carries an email that is not that user's.
IdentityMismatch ==
    /\ user.found
    /\ reqBody.parses
    /\ ~Falsy(reqBody.email)
    /\ reqBody.email # user.email

\* C6: a request whose token verified to a user and whose body carries
\* another email ends with 403 whatever wallets, key shares and secrets
\* exist, and only the token verification and the body read are ever called.
C6_MismatchedEmailForbidden ==
    IdentityMismatch =>
        /\ CallNames \subseteq {"simulateVerifyToken", "req.json"}
        /\ keyShare = NoKeyShare /\ userShare = NoKeyShare
        /\ spc \in {"parseBody", "done"}
        /\ Done => response = TextResponse(403, "Forbidden")

C6_Witness ==
    /\ Done
    /\ user.email = "alice@x"
    /\ reqBody.email = "bob@x"
    /\ pregenWallets = Emails
    /\ keySharesDB = Emails
    /\ env = [PARA_API_KEY |-> TRUE, ALCHEMY_API_KEY |-> TRUE, ALCHEMY_GAS_POLICY_ID |-> TRUE]
    /\ response.status = 403

\* The seven gates, read off the request and its environment.
AllGatesPassed ==
    /\ authHeader.present /\ StartsWith(authHeader.value, BearerSp)
    /\ user.found
    /\ reqBody.parses /\ ~Falsy(reqBody.email) /\ reqBody.email = user.email
    /\ env.PARA_API_KEY /\ env.ALCHEMY_API_KEY /\ env.ALCHEMY_GAS_POLICY_ID
    /\ reqBody.email \in pregenWallets
    /\ reqBody.email \in keySharesDB
    /\ ~decryptFails

SigningCalls ==
    {"setUserShare", "createParaAccount", "createParaViemClient",
     "createModularAccountAlchemyClient", "sendUserOperation"}

VerifiedUser == SimulateVerifyToken(TokenOf(authHeader.value))

SecretsSet == env.PARA_API_KEY /\ env.ALCHEMY_API_KEY /\ env.ALCHEMY_GAS_POLICY_ID

\* The first gate, in the order 1..7, that the request and its environment
\* violate; 0 when they violate none.  A body that cannot be read as JSON
\* is none of the gates and is numbered 9.
FirstViolatedGate ==
    IF NoBearerHeader THEN 1
    ELSE IF ~VerifiedUser.found THEN 2
    ELSE IF ~reqBody.parses THEN 9
    ELSE IF Falsy(reqBody.email) \/ reqBody.email # VerifiedUser.email THEN 3
    ELSE IF ~SecretsSet THEN 4
    ELSE IF reqBody.email \notin pregenWallets THEN 5
    ELSE IF reqBody.email \notin keySharesDB THEN 6
    ELSE IF decryptFails THEN 7
    ELSE 0

\* The status the interface assigns to the failure of gate g (1..6).
GateStatus(g) ==
    IF g \in {1, 2} THEN 401
    ELSE IF g = 3 THEN (IF Falsy(reqBody.email) THEN 400 ELSE 403)
    ELSE IF g = 4 THEN 500
    ELSE 400

\* The collaborators that belong to the gates up to g.
GateCalls(g) ==
    (IF g >= 2 THEN {"simulateVerifyToken"} ELSE {})
    \cup (IF g >= 3 THEN {"req.json"} ELSE {})
    \cup (IF g >= 5 THEN {"hasPregenWallet"} ELSE {})
    \cup (IF g >= 6 THEN {"getKeyShareInDB"} ELSE {})

\* C12: a finished request that violates one of the gates 1..6 carries the
\* status of the first gate it violates (401, 401, 400 or 403, 500, 400,
\* 400) and has called exactly the collaborators of the gates up to that
\* one; a 200 is returned only when no gate is violated and then carries
\* the JSON {route, userOperationResult}; and a request that violates no
\* gate and whose submission succeeds is answered 200.
C12_FirstViolatedGateAnswers ==
    Done =>
        /\ FirstViolatedGate \in 1..6 =>
              /\ response.kind = "response"
              /\ response.status = GateStatus(FirstViolatedGate)
              /\ CallNames = GateCalls(FirstViolatedGate)
        /\ response.status = 200 =>
              /\ FirstViolatedGate = 0
              /\ response = JsonResponse(200, "signWithAlchemy", "userOperationResult")
        /\ (FirstViolatedGate = 0 /\ ~sendFails) => response.status = 200

C12_Witness ==
    /\ Done
    /\ FirstViolatedGate = 4
    /\ reqBody.email \notin pregenWallets
    /\ reqBody.email \notin keySharesDB
    /\ response.status = 500
    /\ "hasPregenWallet" \notin CallNames

MaxRequests == 2

\* The handler is called for the next request, in the same deployment:
\* line 22 with a new req; the answer just given is remembered.
NextRequest ==
    /\ spc = "done"
    /\ requests < MaxRequests
    /\ requests' = requests + 1
    /\ prev' = [gate |-> FirstViolatedGate, response |-> response]
    /\ authHeader' \in AuthHeaders
    /\ reqBody' \in RequestBodies
    /\ spc' = "start"
    /\ user' = NoUser
    /\ email' = Undefined
    /\ keyShare' = NoKeyShare
    /\ userShare' = NoKeyShare
    /\ calls' = <<>>
    /\ response' = NoResponse
    /\ UNCHANGED <<env, pregenWallets, keySharesDB, decryptFails, sendFails>>
    /\ UNCHANGED <<nvars, cvars>>

\* Up to MaxRequests requests to signWithAlchemy, one after the other.
ServerSeqNext == ServerNext \/ NextRequest

ServerSeqSpec == ServerInit /\ [][ServerSeqNext]_vars

\* This request and the previous one each violated a gate, and not the same one.
TwoGatesViolated ==
    /\ prev.gate \in 1..7
    /\ FirstViolatedGate \in 1..7
    /\ prev.gate # FirstViolatedGate

SubmitStep == submits' = submits + 1

\* A step in which one capsule.signMessage call settles and handleSubmit finishes.
SettleStep == inFlight' = inFlight - 1

IsPending(r) == "pendingTransactionId" \in DOMAIN r \/ "transactionReviewUrl" \in DOMAIN r

IsRejected(r) == "rejected" \in DOMAIN r

\* C8: a submit made while the wallet is not connected or has no wallet id
\* leaves a shown error status (the connect-your-wallet message when not
\* connected) and makes no capsule.signMessage call.
C8_NoSignerCallWithoutWallet ==
    [][(SubmitStep /\ (~isConnected \/ Falsy(walletId))) =>
          /\ status'.show /\ status'.type = "error"
          /\ ~isConnected => status'.message = NotConnectedMsg
          /\ signerCalls' = <<>>
          /\ inFlight' = inFlight]_vars

C8_Witness ==
    /\ submits > 0
    /\ ~isConnected
    /\ outcome = "notConnected"
    /\ status = ErrorStatus(NotConnectedMsg)
    /\ signerCalls = <<>>
    /\ inFlight = 0

\* C9: when the signer call settles with an object carrying
\* pendingTransactionId or transactionReviewUrl, the status becomes the
\* denied error, which is not the generic failure message, and the signature
\* state keeps its value.
C9_PendingResultIsDenied ==
    [][(SettleStep /\ IsPending(signerResult')) =>
          /\ status' = ErrorStatus(DeniedMsg)
          /\ status'.message # FailedMsg
          /\ signature' = signature]_vars

C9_Witness ==
    /\ outcome = "denied"
    /\ signerResult = [transactionReviewUrl |-> "u1"]
    /\ status = ErrorStatus(DeniedMsg)
    /\ signature = <<>>

\* C10: whenever the form is loading it later stops loading, given that
\* every signer call settles; a submit that fails a precondition and every
\* settling of the signer call end with isLoading false; and a rejected
\* signer call ends with the generic failure status.
C10_LoadingAlwaysCleared ==
    /\ isLoading ~> ~isLoading
    /\ [][(SubmitStep /\ (~isConnected \/ Falsy(walletId))) => ~isLoading']_vars
    /\ [][SettleStep => ~isLoading']_vars
    /\ [][(SettleStep /\ IsRejected(signerResult')) =>
             status' = ErrorStatus(FailedMsg)]_vars

C10_Witness ==
    /\ outcome = "thrown"
    /\ IsRejected(signerResult)
    /\ status = ErrorStatus(FailedMsg)
    /\ ~isLoading
    /\ inFlight = 0

\* C14: at most one capsule.signMessage call is outstanding; exactly while
\* one is, the form is loading, and while it is loading the form cannot be
\* submitted, so every submit starts with no call outstanding.
C14_OneSignerCallAtATime ==
    /\ inFlight \in {0, 1}
    /\ inFlight = 1 <=> isLoading
    /\ isLoading => ~CanSubmit
    /\ Len(signerCalls) <= 1

C14_Witness ==
    /\ inFlight = 1
    /\ isLoading
    /\ submits = MaxSubmits
    /\ outcome = "awaiting"
    /\ signerResult # NoResult

\* The result is a completed signature: it has a signature and no pending key.
IsCompleted(r) == "signature" \in DOMAIN r /\ ~IsPending(r)

\* C15: the signature state changes only in a step in which the signer call
\* settles with a completed signature, and then becomes 0x followed by that
\* signature; every other step leaves it as it was.
C15_SignatureWrittenOnlyOnSuccess ==
    [][signature' # signature =>
          /\ SettleStep
          /\ IsCompleted(signerResult')
          /\ signature' = Prefix0x \o SignatureOf(signerResult')]_vars

C15_Witness ==
    /\ signature = <<"0", "x", "a", "1">>
    /\ outcome = "thrown"
    /\ status = ErrorStatus(FailedMsg)
    /\ submits >= 2

\* The collaborators that are keyed by, or act on the key share of, an email.
EmailKeyedCalls == {"hasPregenWallet", "getKeyShareInDB", "decrypt", "setUserShare"}

\* C16: every wallet-existence check and key-share lookup is keyed by the
\* email of the verified user, and every key share loaded, decrypted or
\* installed is that user's.
C16_KeyShareOfVerifiedUserOnly ==
    /\ \A i \in DOMAIN calls :
          calls[i].fn \in EmailKeyedCalls =>
              /\ user.found
              /\ calls[i].arg = user.email
              /\ user = VerifiedUser
    /\ keyShare.found => (user.found /\ keyShare.owner = user.email)
    /\ userShare.found => (user.found /\ userShare.owner = user.email)

C16_Witness ==
    /\ user.email = "bob@x"
    /\ keySharesDB = Emails
    /\ pregenWallets = Emails
    /\ userShare.found
    /\ userShare.owner = "bob@x"
    /\ "setUserShare" \in CallNames

====
